---------------------------- MODULE Spec2Model ----------------------------
(***************************************************************************)
(* The MNIST classifier (src/unnamed/part_000) and autoencoder             *)
(* (src/autoencoder/main.go): the training loop, the evaluation loop, the  *)
(* pixel visualisation and the arg-max label scan.                         *)
(*                                                                         *)
(* Three specifications share the variables:                               *)
(*   Spec       main(): load, train, evaluate, write files                 *)
(*   SpecPixel  visualizeRow / reversePixelWeight on an input row          *)
(*   SpecLabel  the arg-max scan over a target row                         *)
(*                                                                         *)
(* Activations are float64 in the code.  They are modelled exactly as      *)
(* integers counting thousandths (0.01 is 10, 0.99 is 990), so that        *)
(* pixelRange*px - pixelRange is the integer 255*px - 255000 thousandths.  *)
(***************************************************************************)
EXTENDS Integers, Sequences, FiniteSets

VARIABLES
  prog,         \* which program runs: "classifier" or "autoencoder"
  epochs,       \* flag -epochs
  bs,           \* flag -batchsize (bs := *batchsize)
  nTrain,       \* rows of the split named by -dataset, on disk
  nTest,        \* rows of the "test" split, on disk
  pc,           \* position of main()
  numExamples,  \* inputs.Shape()[0]
  batches,      \* numExamples / bs
  i,            \* epoch index
  b,            \* batch index
  j,            \* row index inside an evaluation batch
  start,        \* slice start of the current batch
  end,          \* slice end of the current batch
  guards,       \* which of the two guards of the batch loops ever fired
  params,       \* number of solver updates applied to the learnables
  vmRuns,       \* vm.RunAll() calls since the last vm.Reset()
  batchTrace,   \* steps of the current batch, in order
  processed,    \* slices whose solver step was applied in the current epoch
  trained,      \* the training loop has ended (bar.Finish() reached)
  failed,       \* some checked operation returned an error
  attempted,    \* output rows whose write was issued
  written,      \* output rows that reached an opened file
  conv,         \* how this build converts an out-of-range float64 to byte
  x,            \* visualizeRow: the input row
  pix,          \* visualizeRow: the bytes produced so far
  scaled,       \* visualizeRow: the numbers handed to the byte conversion
  yRow,         \* label scan: the target row
  k,            \* label scan: loop index
  rowLabel,     \* label scan: current arg-max
  yRowHigh      \* label scan: current maximum

cfgVars   == <<prog, epochs, bs, nTrain, nTest>>
loopVars  == <<numExamples, batches, i, b, j, start, end, guards>>
histVars  == <<params, vmRuns, batchTrace, processed, trained, failed>>
outVars   == <<attempted, written>>
pixVars   == <<conv, x, pix, scaled>>
scanVars  == <<yRow, k, rowLabel, yRowHigh>>
vars      == <<cfgVars, pc, loopVars, histVars, outVars, pixVars, scanVars>>

(***************************************************************************)
(* Bounds of the model.                                                    *)
(***************************************************************************)
MaxEpochs == 2
MaxN      == 4
MaxBatch  == 3
RowLen    == 2
MaxPxK    == 2
MaxVal    == 1

(***************************************************************************)
(* Program constants.                                                      *)
(***************************************************************************)
pixelRange == 255
NumLabels  == 10

Programs == {"classifier", "autoencoder"}

Min(p, q) == IF p <= q THEN p ELSE q
Max(p, q) == IF p >= q THEN p ELSE q

\* Go's integer division truncates toward zero.
GoDiv(n, d) ==
  IF n >= 0 THEN n \div d ELSE 0 - ((0 - n) \div d)


(***************************************************************************)
(* main(): shared pieces of the training and the evaluation loop.          *)
(***************************************************************************)

\* if err != nil { log.Fatal(...) }: the process exits, nothing runs after.
\* Variant: the error is dropped and the run goes on.
AfterCheckIgnoringError(ok, next) == next
AfterCheck(ok, next) == IF ok THEN next ELSE "aborted"

\* batches := numExamples / bs
\* Variant: the partial batch is counted too.
BatchesRoundedUp(n, s) == GoDiv(n + s - 1, s)
Batches(n, s) == GoDiv(n, s)

\* start := b * bs
\* Variant: off by one batch.
SliceStartOfNext(bb, s) == (bb + 1) * s
SliceStart(bb, s) == bb * s

\* end := start + bs; if end > numExamples { end = numExamples }
SliceEnd(st, s, n) == IF st + s > n THEN n ELSE st + s

\* Which guards of the loop body fire for this batch.
GuardsFired(st, s, n) ==
  IF st >= n THEN {"break"}
  ELSE IF st + s > n THEN {"clamp"} ELSE {}

\* solver.Step(...): one update of every learnable.
\* Variant: two updates per call.
SolverStepTwice(p) == p + 2
SolverStep(p) == p + 1

Slice(st, en) == [start |-> st, end |-> en]

\* The flags and the two splits on disk.
InitConfig ==
  /\ prog \in Programs
  /\ epochs \in (0 - 1) .. MaxEpochs
  /\ bs \in 1 .. MaxBatch
  /\ nTrain \in 0 .. MaxN
  /\ nTest \in 0 .. MaxN

\* One fixed configuration, for the specifications of the pure functions.
InitConfigFixed(program) ==
  /\ prog = program
  /\ epochs = 0
  /\ bs = 1
  /\ nTrain = 0
  /\ nTest = 0

InitMain(first) ==
  /\ pc = first
  /\ numExamples = 0
  /\ batches = 0
  /\ i = 0
  /\ b = 0
  /\ j = 0
  /\ start = 0
  /\ end = 0
  /\ guards = {}
  /\ params = 0
  /\ vmRuns = 0
  /\ batchTrace = << >>
  /\ processed = << >>
  /\ trained = FALSE
  /\ failed = FALSE
  /\ attempted = {}
  /\ written = {}

InitPixelIdle ==
  /\ conv \in {"wrap", "saturate"}
  /\ x = << >>
  /\ pix = << >>
  /\ scaled = << >>

InitScanIdle ==
  /\ yRow = [q \in 0 .. (NumLabels - 1) |-> 0]
  /\ k = 0
  /\ rowLabel = 0
  /\ yRowHigh = 0

Init == InitConfig /\ InitMain("load_train") /\ InitPixelIdle /\ InitScanIdle

(***************************************************************************)
(* Training.                                                               *)
(***************************************************************************)

\* mnist.Load(trainOn, ...), the graph, gg.Grad, the tape machine, the solver,
\* batches := numExamples / bs.  A load or a Grad error is fatal.
LoadTrain ==
  /\ pc = "load_train"
  /\ \E ok \in BOOLEAN :
       /\ pc' = AfterCheck(ok, "epoch_head")
       /\ failed' = (failed \/ ~ok)
       /\ numExamples' = IF ok THEN nTrain ELSE numExamples
       /\ batches' = IF ok THEN Batches(nTrain, bs) ELSE batches
  /\ i' = 0
  /\ UNCHANGED <<cfgVars, b, j, start, end, guards>>
  /\ UNCHANGED <<params, vmRuns, batchTrace, processed, trained>>
  /\ UNCHANGED <<outVars, pixVars, scanVars>>

\* for i := 0; i < *epochs; i++ { bar...; for b := 0; ...   and bar.Finish()
TrainEpochHead ==
  /\ pc = "epoch_head"
  /\ IF i < epochs
        THEN /\ pc' = "batch_head"
             /\ b' = 0
             /\ processed' = << >>
             /\ trained' = trained
        ELSE /\ pc' = "load_test"
             /\ trained' = TRUE
             /\ UNCHANGED <<b, processed>>
  /\ UNCHANGED <<cfgVars, numExamples, batches, i, j, start, end, guards>>
  /\ UNCHANGED <<params, vmRuns, batchTrace, failed>>
  /\ UNCHANGED <<outVars, pixVars, scanVars>>

\* b < batches; start, end and the two guards of the loop body.
TrainBatchHead ==
  /\ pc = "batch_head"
  /\ IF b < batches
        THEN /\ start' = SliceStart(b, bs)
             /\ guards' = guards \cup GuardsFired(SliceStart(b, bs), bs, numExamples)
             /\ IF SliceStart(b, bs) >= numExamples
                   THEN /\ pc' = "epoch_end"
                        /\ end' = SliceStart(b, bs) + bs
                        /\ batchTrace' = batchTrace
                   ELSE /\ pc' = "t_slice_x"
                        /\ end' = SliceEnd(SliceStart(b, bs), bs, numExamples)
                        /\ batchTrace' = << >>
        ELSE /\ pc' = "epoch_end"
             /\ UNCHANGED <<start, end, guards, batchTrace>>
  /\ UNCHANGED <<cfgVars, numExamples, batches, i, b, j>>
  /\ UNCHANGED <<params, vmRuns, processed, trained, failed>>
  /\ UNCHANGED <<outVars, pixVars, scanVars>>

\* bar.Update(); log.Printf("Epoch %d | cost %v", ...); i++
TrainEpochEnd ==
  /\ pc = "epoch_end"
  /\ i' = i + 1
  /\ pc' = "epoch_head"
  /\ UNCHANGED <<cfgVars, numExamples, batches, b, j, start, end, guards>>
  /\ UNCHANGED <<histVars, outVars, pixVars, scanVars>>

\* A checked library call of the batch: on error log.Fatal.
Checked(at, next) ==
  /\ pc = at
  /\ \E ok \in BOOLEAN :
       /\ pc' = AfterCheck(ok, next)
       /\ failed' = (failed \/ ~ok)
  /\ UNCHANGED <<cfgVars, loopVars>>
  /\ UNCHANGED <<params, vmRuns, batchTrace, processed, trained>>
  /\ UNCHANGED <<outVars, pixVars, scanVars>>

\* xVal, err = inputs.Slice(sli{start, end})
TrainSliceX ==
  Checked("t_slice_x", IF prog = "classifier" THEN "t_slice_y" ELSE "t_reshape")

\* yVal, err = targets.Slice(sli{start, end})      (classifier only)
TrainSliceY == Checked("t_slice_y", "t_reshape")

\* err = xVal.(*tensor.Dense).Reshape(bs, 784)
TrainReshape == Checked("t_reshape", "t_let")

\* gg.Let(x, xVal); gg.Let(y, ...)
TrainLet ==
  /\ pc = "t_let"
  /\ batchTrace' = batchTrace \o <<"let x", "let y">>
  /\ pc' = "t_run"
  /\ UNCHANGED <<cfgVars, loopVars>>
  /\ UNCHANGED <<params, vmRuns, processed, trained, failed>>
  /\ UNCHANGED <<outVars, pixVars, scanVars>>

\* err = vm.RunAll()
TrainRunAll ==
  /\ pc = "t_run"
  /\ vmRuns' = vmRuns + 1
  /\ batchTrace' = Append(batchTrace, "run")
  /\ \E ok \in BOOLEAN :
       /\ pc' = AfterCheck(ok, "t_step")
       /\ failed' = (failed \/ ~ok)
  /\ UNCHANGED <<cfgVars, loopVars>>
  /\ UNCHANGED <<params, processed, trained>>
  /\ UNCHANGED <<outVars, pixVars, scanVars>>

\* solver.Step(gg.NodesToValueGrads(m.learnables()))
TrainStep ==
  /\ pc = "t_step"
  /\ params' = SolverStep(params)
  /\ processed' = Append(processed, Slice(start, end))
  /\ batchTrace' = Append(batchTrace, "step")
  /\ pc' = "t_reset"
  /\ UNCHANGED <<cfgVars, loopVars>>
  /\ UNCHANGED <<vmRuns, trained, failed>>
  /\ UNCHANGED <<outVars, pixVars, scanVars>>

\* vm.Reset(); bar.Increment(); b++
\* Variant: the batch ends without vm.Reset().
TrainResetSkipped ==
  /\ pc = "t_reset"
  /\ batchTrace' = batchTrace
  /\ vmRuns' = vmRuns
  /\ b' = b + 1
  /\ pc' = "batch_head"
  /\ UNCHANGED <<cfgVars, numExamples, batches, i, j, start, end, guards>>
  /\ UNCHANGED <<params, processed, trained, failed>>
  /\ UNCHANGED <<outVars, pixVars, scanVars>>
TrainReset ==
  /\ pc = "t_reset"
  /\ batchTrace' = Append(batchTrace, "reset")
  /\ vmRuns' = 0
  /\ b' = b + 1
  /\ pc' = "batch_head"
  /\ UNCHANGED <<cfgVars, numExamples, batches, i, j, start, end, guards>>
  /\ UNCHANGED <<params, processed, trained, failed>>
  /\ UNCHANGED <<outVars, pixVars, scanVars>>

(***************************************************************************)
(* Evaluation.                                                             *)
(***************************************************************************)

\* One output row: kind is "input"/"output" (autoencoder images), "image"
\* (classifier image) or "csv" (classifier CSV row); b and j as in the file name.
Out(kind, bb, jj) == [kind |-> kind, b |-> bb, j |-> jj]

\* mnist.Load("test", ...); os.Mkdir; numExamples, bs, batches again; b := 0
LoadTest ==
  /\ pc = "load_test"
  /\ \E ok \in BOOLEAN :
       /\ pc' = AfterCheck(ok, "e_batch_head")
       /\ failed' = (failed \/ ~ok)
       /\ numExamples' = IF ok THEN nTest ELSE numExamples
       /\ batches' = IF ok THEN Batches(nTest, bs) ELSE batches
       /\ b' = IF ok THEN 0 ELSE b
  /\ UNCHANGED <<cfgVars, i, j, start, end, guards>>
  /\ UNCHANGED <<params, vmRuns, batchTrace, processed, trained>>
  /\ UNCHANGED <<outVars, pixVars, scanVars>>

\* b < batches; start, end and the two guards; after the loop the last log line.
EvalBatchHead ==
  /\ pc = "e_batch_head"
  /\ IF b < batches
        THEN /\ start' = SliceStart(b, bs)
             /\ guards' = guards \cup GuardsFired(SliceStart(b, bs), bs, numExamples)
             /\ IF SliceStart(b, bs) >= numExamples
                   THEN /\ pc' = "done"
                        /\ end' = SliceStart(b, bs) + bs
                        /\ batchTrace' = batchTrace
                   ELSE /\ pc' = "e_slice_x"
                        /\ end' = SliceEnd(SliceStart(b, bs), bs, numExamples)
                        /\ batchTrace' = << >>
        ELSE /\ pc' = "done"
             /\ UNCHANGED <<start, end, guards, batchTrace>>
  /\ UNCHANGED <<cfgVars, numExamples, batches, i, b, j>>
  /\ UNCHANGED <<params, vmRuns, processed, trained, failed>>
  /\ UNCHANGED <<outVars, pixVars, scanVars>>

\* xVal, err = inputs.Slice(sli{start, end})
EvalSliceX ==
  Checked("e_slice_x", IF prog = "classifier" THEN "e_slice_y" ELSE "e_reshape")

\* yVal, err = targets.Slice(sli{start, end})      (classifier only)
EvalSliceY == Checked("e_slice_y", "e_reshape")

\* err = xVal.(*tensor.Dense).Reshape(bs, 784)
EvalReshape == Checked("e_reshape", "e_let")

\* gg.Let(x, xVal); gg.Let(y, ...)
EvalLet ==
  /\ pc = "e_let"
  /\ batchTrace' = batchTrace \o <<"let x", "let y">>
  /\ pc' = "e_run"
  /\ UNCHANGED <<cfgVars, loopVars>>
  /\ UNCHANGED <<params, vmRuns, processed, trained, failed>>
  /\ UNCHANGED <<outVars, pixVars, scanVars>>

\* err = vm.RunAll(), then the first row loop starts at j := 0
\* Variant: evaluation also applies a solver step.
EvalRunAllThenStep ==
  /\ pc = "e_run"
  /\ vmRuns' = vmRuns + 1
  /\ batchTrace' = Append(batchTrace, "run")
  /\ \E ok \in BOOLEAN :
       /\ pc' = AfterCheck(ok, IF prog = "autoencoder" THEN "e_in" ELSE "e_img")
       /\ failed' = (failed \/ ~ok)
       /\ params' = IF ok THEN SolverStep(params) ELSE params
  /\ j' = 0
  /\ UNCHANGED <<cfgVars, numExamples, batches, i, b, start, end, guards>>
  /\ UNCHANGED <<processed, trained>>
  /\ UNCHANGED <<outVars, pixVars, scanVars>>
EvalRunAll ==
  /\ pc = "e_run"
  /\ vmRuns' = vmRuns + 1
  /\ batchTrace' = Append(batchTrace, "run")
  /\ \E ok \in BOOLEAN :
       /\ pc' = AfterCheck(ok, IF prog = "autoencoder" THEN "e_in" ELSE "e_img")
       /\ failed' = (failed \/ ~ok)
  /\ j' = 0
  /\ UNCHANGED <<cfgVars, numExamples, batches, i, b, start, end, guards>>
  /\ UNCHANGED <<params, processed, trained>>
  /\ UNCHANGED <<outVars, pixVars, scanVars>>

\* j < xVal.Shape()[0], j < yOutput.Shape()[0]
\* Variant: the loop stops one row early.
MoreRowsButLast(jj, rows) == jj + 1 < rows
MoreRows(jj, rows) == jj < rows

\* One pass of a row loop, for j := 0; j < <rows>; j++: the file of row j is
\* opened (the error is dropped) and the image encoded into it; an image
\* reaches the disk only when the open succeeded.  rows is xVal.Shape()[0]
\* or yOutput.Shape()[0], both bs after Reshape(bs, 784) / WithShape(bs, ...).
WriteRows(at, kind, next) ==
  /\ pc = at
  /\ IF MoreRows(j, bs)
        THEN /\ \E opened \in BOOLEAN :
                  /\ attempted' = attempted \cup {Out(kind, b, j)}
                  /\ written' = IF opened THEN written \cup {Out(kind, b, j)}
                                          ELSE written
             /\ j' = j + 1
             /\ pc' = at
        ELSE /\ j' = 0
             /\ pc' = next
             /\ UNCHANGED <<attempted, written>>
  /\ UNCHANGED <<cfgVars, numExamples, batches, i, b, start, end, guards>>
  /\ UNCHANGED <<histVars, pixVars, scanVars>>

\* autoencoder: "%d - %d input.png" for every row of xVal
EvalWriteInput == prog = "autoencoder" /\ WriteRows("e_in", "input", "e_out")

\* autoencoder: "%d - %d output.png" for every row of yOutput
EvalWriteOutput == prog = "autoencoder" /\ WriteRows("e_out", "output", "e_reset")

\* classifier: "%d - %d - %d - %d.png" for every row of xVal
EvalWriteImage == prog = "classifier" /\ WriteRows("e_img", "image", "e_csv")

\* classifier: "%d.csv" is opened (error overwritten), xVal reshaped again
\* (fatal on error), then one row per row of yOutput goes to the csv writer.
EvalWriteCsv ==
  /\ pc = "e_csv"
  /\ \E opened \in BOOLEAN, ok \in BOOLEAN :
       /\ pc' = AfterCheck(ok, "e_reset")
       /\ failed' = (failed \/ ~ok)
       /\ attempted' = IF ok THEN attempted \cup {Out("csv", b, r) : r \in 0 .. (bs - 1)}
                            ELSE attempted
       /\ written' = IF ok /\ opened
                        THEN written \cup {Out("csv", b, r) : r \in 0 .. (bs - 1)}
                        ELSE written
  /\ UNCHANGED <<cfgVars, loopVars>>
  /\ UNCHANGED <<params, vmRuns, batchTrace, processed, trained>>
  /\ UNCHANGED <<pixVars, scanVars>>

\* vm.Reset(); bar.Increment(); b++
EvalReset ==
  /\ pc = "e_reset"
  /\ batchTrace' = Append(batchTrace, "reset")
  /\ vmRuns' = 0
  /\ b' = b + 1
  /\ pc' = "e_batch_head"
  /\ UNCHANGED <<cfgVars, numExamples, batches, i, j, start, end, guards>>
  /\ UNCHANGED <<params, processed, trained, failed>>
  /\ UNCHANGED <<outVars, pixVars, scanVars>>

Next ==
  \/ LoadTrain
  \/ TrainEpochHead
  \/ TrainBatchHead
  \/ TrainEpochEnd
  \/ TrainSliceX
  \/ TrainSliceY
  \/ TrainReshape
  \/ TrainLet
  \/ TrainRunAll
  \/ TrainStep
  \/ TrainReset
  \/ LoadTest
  \/ EvalBatchHead
  \/ EvalSliceX
  \/ EvalSliceY
  \/ EvalReshape
  \/ EvalLet
  \/ EvalRunAll
  \/ EvalWriteInput
  \/ EvalWriteOutput
  \/ EvalWriteImage
  \/ EvalWriteCsv
  \/ EvalReset

Spec == Init /\ [][Next]_vars

(***************************************************************************)
(* visualizeRow and reversePixelWeight.                                    *)
(***************************************************************************)

\* The activations tried, in thousandths: a grid from below 0 to above 1
\* and the two clamp limits 0.01 and 0.99.
PxGrid == {50 * q : q \in (0 - MaxPxK) .. (20 + MaxPxK)} \cup {10, 990}

\* pixelRange*math.Min(0.99, math.Max(0.01, px)) - pixelRange, in thousandths
\* Variant: the operands of the subtraction swapped.
ScaledPixelReversed(px) == pixelRange * 1000 - pixelRange * Min(990, Max(10, px))
ScaledPixel(px) == pixelRange * Min(990, Max(10, px)) - pixelRange * 1000

\* The integer part of t thousandths (a float-to-integer conversion drops the
\* fraction, toward zero).
Truncate(t) == IF t >= 0 THEN t \div 1000 ELSE 0 - ((0 - t) \div 1000)

\* byte(f) for a float64 f.  When the integer part is outside 0..255 the Go
\* specification leaves the value to the implementation: builds either keep
\* the low 8 bits of the integer part or saturate.
ToByte(t) ==
  IF Truncate(t) \in 0 .. 255 THEN Truncate(t)
  ELSE IF conv = "wrap" THEN ((Truncate(t) % 256) + 256) % 256
  ELSE Max(0, Min(255, Truncate(t)))

reversePixelWeight(px) == ToByte(ScaledPixel(px))

InitPixel ==
  /\ InitConfigFixed("autoencoder")
  /\ InitMain("visualize")
  /\ conv \in {"wrap", "saturate"}
  /\ x \in [1 .. RowLen -> PxGrid]
  /\ pix = << >>
  /\ scaled = << >>
  /\ InitScanIdle

\* for i, px := range x { pix[i] = reversePixelWeight(px) }; img.Pix = pix
visualizeRow ==
  /\ pc = "visualize"
  /\ IF Len(pix) < Len(x)
        THEN /\ pix' = Append(pix, reversePixelWeight(x[Len(pix) + 1]))
             /\ scaled' = Append(scaled, ScaledPixel(x[Len(pix) + 1]))
             /\ pc' = pc
        ELSE /\ pc' = "visualized"
             /\ UNCHANGED <<pix, scaled>>
  /\ UNCHANGED <<cfgVars, loopVars, histVars, outVars, conv, x, scanVars>>

NextPixel == visualizeRow

SpecPixel == InitPixel /\ [][NextPixel]_vars

(***************************************************************************)
(* The arg-max scan of the classifier's evaluation loop.                   *)
(***************************************************************************)

\* yRow[k] > yRowHigh
\* Variant: the comparison reversed.
HigherReversed(v, high) == v < high
Higher(v, high) == v > high

InitLabel ==
  /\ InitConfigFixed("classifier")
  /\ InitMain("label")
  /\ InitPixelIdle
  /\ yRow \in [0 .. (NumLabels - 1) -> 0 .. MaxVal]
  /\ k = 0
  /\ rowLabel = 0
  /\ yRowHigh = 0

\* for k := 0; k < 10; k++ { if k == 0 {...} else if yRow[k] > yRowHigh {...} }
LabelScan ==
  /\ pc = "label"
  /\ IF k < NumLabels
        THEN /\ IF k = 0
                   THEN /\ rowLabel' = 0
                        /\ yRowHigh' = yRow[k]
                   ELSE IF Higher(yRow[k], yRowHigh)
                           THEN /\ rowLabel' = k
                                /\ yRowHigh' = yRow[k]
                           ELSE UNCHANGED <<rowLabel, yRowHigh>>
             /\ k' = k + 1
             /\ pc' = pc
        ELSE /\ pc' = "labelled"
             /\ UNCHANGED <<k, rowLabel, yRowHigh>>
  /\ UNCHANGED <<cfgVars, loopVars, histVars, outVars, pixVars, yRow>>

NextLabel == LabelScan

SpecLabel == InitLabel /\ [][NextLabel]_vars

(***************************************************************************)
(* Properties.                                                             *)
(***************************************************************************)

IsPrefix(s, t) ==
  /\ Len(s) <= Len(t)
  /\ \A n \in 1 .. Len(s) : s[n] = t[n]

\* floor(n / s), for n >= 0 and s >= 1
Floor(n, s) == n \div s

\* The first cnt full batches of size s, in index order.
FullSlices(s, cnt) == [q \in 1 .. cnt |-> Slice((q - 1) * s, q * s)]

\* How many of the processed slices cover row r.
TimesProcessed(r) ==
  Cardinality({n \in 1 .. Len(processed) :
                 processed[n].start <= r /\ r < processed[n].end})

TrainBodyPcs == {"t_slice_x", "t_slice_y", "t_reshape", "t_let", "t_run",
                 "t_step", "t_reset"}
EvalBodyPcs  == {"e_slice_x", "e_slice_y", "e_reshape", "e_let", "e_run",
                 "e_in", "e_out", "e_img", "e_csv", "e_reset"}

\* C1: in every epoch the batches processed are the first floor(N/B) full
\* batches, in increasing index order, batch b covering rows [b*B, (b+1)*B);
\* when the epoch ends every row below floor(N/B)*B was processed exactly once
\* and no row at or above it was processed.
C1_FullBatchesPerEpoch ==
  /\ Len(processed) <= Floor(nTrain, bs)
  /\ processed = FullSlices(bs, Len(processed))
  /\ pc = "epoch_end" =>
       /\ Len(processed) = Floor(nTrain, bs)
       /\ \A r \in 0 .. (nTrain - 1) :
            TimesProcessed(r) = IF r < Floor(nTrain, bs) * bs THEN 1 ELSE 0

C1_Witness ==
  /\ pc = "epoch_end"
  /\ i = 1
  /\ Len(processed) = 1
  /\ bs > 1
  /\ nTrain % bs # 0

\* The examples (row indexes of the test split) an output of this kind was
\* issued for, and the kinds of output each program produces.
ExamplesWith(kind) == {o.b * bs + o.j : o \in {p \in attempted : p.kind = kind}}
Kinds == IF prog = "autoencoder" THEN {"input", "output"} ELSE {"image", "csv"}

\* C2 as claimed: when evaluation has finished, output was produced for every
\* one of the N test examples (each kind of output of the program).
C2_EveryTestExample ==
  pc = "done" => \A kind \in Kinds : ExamplesWith(kind) = 0 .. (nTest - 1)

\* C2 as amended: when evaluation has finished, output writes were issued for
\* exactly the first floor(N/B)*B test examples, one of each kind per example,
\* and for no other; an output is on disk only if its write was issued.
C2_FullBatchExamples ==
  /\ written \subseteq attempted
  /\ \A o \in attempted : o.kind \in Kinds
  /\ pc = "done" =>
       \A kind \in Kinds :
         /\ ExamplesWith(kind) = 0 .. (Floor(nTest, bs) * bs - 1)
         /\ Cardinality({o \in attempted : o.kind = kind}) = Floor(nTest, bs) * bs

C2_Witness ==
  /\ pc = "done"
  /\ nTest % bs # 0
  /\ Floor(nTest, bs) = 1
  /\ Cardinality(attempted) = 2 * bs
  /\ written # attempted

\* C3: the parameters change by one solver step per processed batch and at no
\* other time: e * floor(N/B) steps after e completed epochs, and
\* max(epochs, 0) * floor(N/B) once the training loop has ended.
C3_StepsPerBatch ==
  /\ pc = "epoch_head" => params = i * Floor(nTrain, bs)
  /\ pc \in TrainBodyPcs \cup {"batch_head", "epoch_end"} =>
       params = i * Floor(nTrain, bs) + Len(processed)
  /\ trained => params = Max(epochs, 0) * Floor(nTrain, bs)

C3_Witness ==
  /\ trained
  /\ epochs = 2
  /\ params = 4
  /\ nTrain = 4

\* C4: once the training loop has ended no step changes the parameters, and
\* with 0 (or fewer) epochs they have their initial value at the end of the run.
C4_EvalKeepsParams ==
  /\ [][trained => params' = params]_vars
  /\ [](pc = "done" /\ epochs <= 0 => params = 0)

C4_Witness ==
  /\ pc = "done"
  /\ epochs = 0
  /\ nTrain > 0
  /\ attempted # {}
  /\ params = 0

TrainOrder == <<"let x", "let y", "run", "step", "reset">>
EvalOrder  == <<"let x", "let y", "run", "reset">>

\* C9: a training batch runs bind, execute, solver step, reset in this order,
\* an evaluation batch bind, execute, reset; the tape machine is reset between
\* any two executions, so no execution starts on a machine that was not reset.
C9_BatchOrder ==
  /\ vmRuns <= 1
  /\ pc \in {"t_run", "e_run"} => vmRuns = 0
  /\ ~trained => IsPrefix(batchTrace, TrainOrder)
  /\ trained => IsPrefix(batchTrace, EvalOrder) \/ batchTrace = TrainOrder
  /\ pc = "batch_head" /\ b > 0 => batchTrace = TrainOrder
  /\ pc = "e_batch_head" /\ b > 0 => batchTrace = EvalOrder

C9_Witness ==
  /\ pc = "e_run"
  /\ b = 1
  /\ params > 1
  /\ vmRuns = 0

\* C10: every slice of a batch, in training and in evaluation, satisfies
\* 0 <= start < end <= N and end - start = B, and neither guard of the batch
\* loops (start >= numExamples, end > numExamples) ever fires.
C10_SliceBounds ==
  /\ guards = {}
  /\ pc \in TrainBodyPcs \cup EvalBodyPcs =>
       /\ 0 <= start
       /\ start < end
       /\ end <= numExamples
       /\ end - start = bs

C10_Witness ==
  /\ pc = "e_reset"
  /\ b + 1 = batches
  /\ nTest % bs # 0
  /\ nTrain % bs # 0
  /\ params > 0

\* C6: for activations a <= b, both within [0.01, 0.99], the byte produced for
\* a is at most the byte produced for b.
C6_Monotonic ==
  \A m, n \in 1 .. Len(pix) :
    (10 <= x[m] /\ x[m] <= x[n] /\ x[n] <= 990) => pix[m] <= pix[n]

C6_Witness ==
  \E m, n \in 1 .. Len(pix) :
    /\ 10 <= x[m]
    /\ x[m] < x[n]
    /\ x[n] <= 990
    /\ pix[m] < pix[n]

\* C7 as claimed: the number handed to the byte conversion is a valid 8-bit
\* value, between 0 and 255, for every activation.
C7_ScaledIsPixel ==
  \A n \in 1 .. Len(scaled) : 0 <= scaled[n] /\ scaled[n] <= 255 * 1000

OneHot(row, q) ==
  /\ row[q] = 1
  /\ \A r \in (DOMAIN row) \ {q} : row[r] = 0

\* C8: for a one-hot target row the label found by the scan is the index of
\* its 1 entry, for every one of the 10 positions.
C8_OneHotLabel ==
  pc = "labelled" =>
    \A q \in 0 .. (NumLabels - 1) : OneHot(yRow, q) => rowLabel = q

C8_Witness ==
  /\ pc = "labelled"
  /\ OneHot(yRow, NumLabels - 1)
  /\ rowLabel = NumLabels - 1

=============================================================================
